---- MODULE Spec2Model ----
(***************************************************************************)
(* Vex: a command-line tool that stores named QEMU launch configurations   *)
(* as one JSON file per name under ~/.vex/configs and replays them.        *)
(* The state is the configuration directory plus what the last command     *)
(* invocation observed and produced (its parsed command line, the lines    *)
(* read from standard input, its output, the child it spawned, its exit    *)
(* code).  Each action is one process invocation of one sub-command.       *)
(***************************************************************************)
EXTENDS Integers, Sequences, FiniteSets, TLC

VARIABLES
    store,      \* name -> contents of ~/.vex/configs/<name>.json
    cmd,        \* the parsed command line and inputs of the last invocation
    out,        \* the messages the last invocation printed, in order
    spawned,    \* the child processes the last invocation ran (at most one)
    listed,     \* the (name, config) entries the last invocation printed
    err,        \* the error the last invocation's main returned, if any
    exit        \* the exit code of the last invocation

vars == <<store, cmd, out, spawned, listed, err, exit>>

----------------------------------------------------------------------------
(* Bounds *)

\* Longest argument list given to `vex save`.
MaxArgs == 4
\* Largest exit code a child process returns.
MaxChildCode == 2

----------------------------------------------------------------------------
(* Program constants *)

\* `main` returning Ok(()) ends the process with code 0.
ExitSuccess == 0
\* `main` returning Err ends the process with code 1 (Termination for Result).
ExitFailure == 1
\* `status.code().unwrap_or(-1)`: the code shown for a child killed by a signal.
UnknownCode == -1

Names == {"a", "b"}

----------------------------------------------------------------------------
(* JSON documents: an object is the sequence of its members, in text order *)

JStr(s) == [t |-> "str", s |-> s, a |-> <<>>]
JArr(a) == [t |-> "arr", s |-> "", a |-> a]
JNull == [t |-> "null", s |-> "", a |-> <<>>]
Member(k, v) == [k |-> k, v |-> v]

(* Files of the configuration directory *)
Absent == [st |-> "absent", obj |-> <<>>]
\* a file holding a JSON object
JsonFile(obj) == [st |-> "json", obj |-> obj]
\* a file holding UTF-8 text that is no JSON document
TextFile == [st |-> "text", obj |-> <<>>]
\* a file whose bytes are no UTF-8 text: fs::read_to_string fails on it
BinaryFile == [st |-> "binary", obj |-> <<>>]

\* Option<String>: <<>> is None, <<s>> is Some(s)
None == <<>>
Some(s) == <<s>>

QemuConfig(qemu_bin, args, desc) ==
    [qemu_bin |-> qemu_bin, args |-> args, desc |-> desc]

NoConfig == QemuConfig("", <<>>, None)

\* Serialize with the description skipped: desc is always written as null.
Serialize_NullDesc(config) ==
    << Member("qemu_bin", JStr(config.qemu_bin)),
       Member("args", JArr(config.args)),
       Member("desc", JNull) >>

\* serde_json::to_string_pretty(&config): the derived Serialize writes the
\* three fields in declaration order; None is written as null.
Serialize(config) ==
    << Member("qemu_bin", JStr(config.qemu_bin)),
       Member("args", JArr(config.args)),
       Member("desc", IF config.desc = None THEN JNull
                      ELSE JStr(config.desc[1])) >>

Keys(obj) == {obj[i].k : i \in 1..Len(obj)}
Count(obj, k) == Cardinality({i \in 1..Len(obj) : obj[i].k = k})
Value(obj, k) == obj[CHOOSE i \in 1..Len(obj) : obj[i].k = k].v

\* Deserialize under #[serde(deny_unknown_fields)]: an unknown member is an
\* error.
Deserialize_DenyUnknown(file) ==
    LET obj == file.obj
        dup == \E k \in {"qemu_bin", "args", "desc"} : Count(obj, k) > 1
        binOk == "qemu_bin" \in Keys(obj) /\ Value(obj, "qemu_bin").t = "str"
        argsOk == "args" \in Keys(obj) /\ Value(obj, "args").t = "arr"
        descOk == "desc" \in Keys(obj) => Value(obj, "desc").t \in {"str", "null"}
        desc == IF "desc" \in Keys(obj) /\ Value(obj, "desc").t = "str"
                THEN Some(Value(obj, "desc").s) ELSE None
    IN  IF /\ file.st = "json" /\ ~dup /\ binOk /\ argsOk /\ descOk
           /\ Keys(obj) \subseteq {"qemu_bin", "args", "desc"}
        THEN [ok |-> TRUE,
              config |-> QemuConfig(Value(obj, "qemu_bin").s,
                                    Value(obj, "args").a, desc)]
        ELSE [ok |-> FALSE, config |-> NoConfig]

\* serde_json::from_str::<QemuConfig>: the derived Deserialize visits the
\* members, rejects a repeated field and a value of the wrong type, ignores
\* unknown members, requires qemu_bin and args, and reads a missing or null
\* desc as None.
Deserialize(file) ==
    LET obj == file.obj
        dup == \E k \in {"qemu_bin", "args", "desc"} : Count(obj, k) > 1
        binOk == "qemu_bin" \in Keys(obj) /\ Value(obj, "qemu_bin").t = "str"
        argsOk == "args" \in Keys(obj) /\ Value(obj, "args").t = "arr"
        descOk == "desc" \in Keys(obj) => Value(obj, "desc").t \in {"str", "null"}
        desc == IF "desc" \in Keys(obj) /\ Value(obj, "desc").t = "str"
                THEN Some(Value(obj, "desc").s) ELSE None
    IN  IF file.st = "json" /\ ~dup /\ binOk /\ argsOk /\ descOk
        THEN [ok |-> TRUE,
              config |-> QemuConfig(Value(obj, "qemu_bin").s,
                                    Value(obj, "args").a, desc)]
        ELSE [ok |-> FALSE, config |-> NoConfig]

\* Exists testing the directory, which config_dir() has just created.
Exists_Dir(name) == store[name].st \in {"absent", "json", "text", "binary"}

\* config_path.exists()
Exists(name) == store[name].st # "absent"
\* fs::write(&path, json) on the directory `dir`
WriteFile(dir, name, obj) == [dir EXCEPT ![name] = JsonFile(obj)]
\* fs::remove_file(&path) on the directory `dir`
RemoveFile(dir, name) == [dir EXCEPT ![name] = Absent]
\* fs::read_to_string(&path) succeeds
Readable(file) == file.st \in {"json", "text"}

----------------------------------------------------------------------------
(* Lines read from standard input: sequences of characters *)

IsWhitespace(c) == c \in {" ", "\n", "\t", "\r"}

RECURSIVE TrimStart(_)
TrimStart(s) ==
    IF s # <<>> /\ IsWhitespace(Head(s)) THEN TrimStart(Tail(s)) ELSE s

RECURSIVE TrimEnd(_)
TrimEnd(s) ==
    IF s # <<>> /\ IsWhitespace(s[Len(s)])
    THEN TrimEnd(SubSeq(s, 1, Len(s) - 1)) ELSE s

\* str::trim
Trim(s) == TrimEnd(TrimStart(s))

LowerChar(c) ==
    CASE c = "Y" -> "y" [] c = "E" -> "e" [] c = "S" -> "s"
      [] c = "N" -> "n" [] c = "O" -> "o" [] OTHER -> c

\* str::to_lowercase
ToLowercase(s) == [i \in 1..Len(s) |-> LowerChar(s[i])]

\* `input.trim().to_lowercase()` of a line read by read_line
Normalized(line) == ToLowercase(Trim(line))

\* Save's debug-flag prompt [Y/n]: empty, "y" or "yes" accepts
StripAccepted(line) ==
    LET input == Normalized(line)
    IN  input = <<>> \/ input = <<"y">> \/ input = <<"y", "e", "s">>

\* OverwriteAccepted with the [Y/n] test of the debug-flag prompt.
OverwriteAccepted_DefaultYes(line) ==
    LET input == Normalized(line)
    IN  input = <<>> \/ input = <<"y">> \/ input = <<"y", "e", "s">>

\* The overwrite prompts [y/N]: only "y" or "yes" accepts
OverwriteAccepted(line) ==
    LET input == Normalized(line)
    IN  ~(input # <<"y">> /\ input # <<"y", "e", "s">>)

----------------------------------------------------------------------------
(* Save's debug-flag filter *)

IsDebugArg(arg) == arg = "-s" \/ arg = "-S"

\* qemu_args.iter().any(|arg| arg == "-s" || arg == "-S")
HasDebugArgs(qemu_args) ==
    \E i \in 1..Len(qemu_args) : IsDebugArg(qemu_args[i])

\* FilterDebugArgs with the filter testing "-s" alone.
FilterDebugArgs_LowerOnly(qemu_args) ==
    SelectSeq(qemu_args, LAMBDA arg : arg # "-s")

\* qemu_args.iter().filter(|&arg| arg != "-s" && arg != "-S").cloned().collect()
FilterDebugArgs(qemu_args) ==
    SelectSeq(qemu_args, LAMBDA arg : arg # "-s" /\ arg # "-S")

\* DebugExecArgs with the two pushes in the other order.
DebugExecArgs_Swapped(args) == Append(Append(args, "-S"), "-s")

\* exec_args.push("-s"); exec_args.push("-S")
DebugExecArgs(args) == Append(Append(args, "-s"), "-S")

----------------------------------------------------------------------------
(* Inputs of the invocations *)

\* The lines a user may type at a prompt.
Answers ==
    { <<"\n">>, <<"y", "\n">>, <<" ", "Y", "E", "S", " ", "\n">>,
      <<"n", "\n">> }

NoInput == <<>>

\* Argument lists given to `vex save`, the longest ones left out by MaxArgs.
ArgPool ==
    { <<"-m", "512">>,
      <<"-s", "-m", "-S", "512">>,
      <<"-S", "-m", "-s", "512", "-s">> }

SaveArgs == {a \in ArgPool : Len(a) <= MaxArgs}

QemuBin == "qemu-system-x86_64"

\* Record files found in the directory that vex did not write itself.
ExternalFiles ==
    { \* an extra, unknown member
      JsonFile(<< Member("note", JStr("x")),
                  Member("qemu_bin", JStr(QemuBin)),
                  Member("args", JArr(<<"-m", "512">>)),
                  Member("desc", JStr("d")) >>),
      \* no desc member
      JsonFile(<< Member("qemu_bin", JStr(QemuBin)),
                  Member("args", JArr(<<"-m", "512">>)) >>),
      \* no args member
      JsonFile(<< Member("qemu_bin", JStr(QemuBin)),
                  Member("desc", JNull) >>),
      \* no qemu_bin member
      JsonFile(<< Member("args", JArr(<<"-m", "512">>)),
                  Member("desc", JStr("d")) >>),
      TextFile,
      BinaryFile }

ChildOutcomes ==
    { [kind |-> "spawn_failed", code |-> 0], [kind |-> "signal", code |-> 0] }
    \cup { [kind |-> "exit", code |-> c] : c \in 0..MaxChildCode }

NoChild == [kind |-> "none", code |-> 0]

Command(op, name, new_name, args, desc, force, debug, in1, in2, child) ==
    [op |-> op, name |-> name, new_name |-> new_name, args |-> args,
     desc |-> desc, force |-> force, debug |-> debug,
     in1 |-> in1, in2 |-> in2, child |-> child]

NoErr == [kind |-> "none", code |-> 0]
Error(kind) == [kind |-> kind, code |-> 0]

\* `main` returns Ok(())
Succeed(messages) ==
    /\ out' = messages
    /\ err' = NoErr
    /\ exit' = ExitSuccess

\* Fail ending the process with the child's code.
Fail_Propagate(messages, e) ==
    /\ out' = messages
    /\ err' = e
    /\ exit' = IF e.kind = "ChildNonZeroExit" THEN e.code ELSE ExitFailure

\* `main` returns Err(e): anyhow prints the error and the process exits
Fail(messages, e) ==
    /\ out' = messages
    /\ err' = e
    /\ exit' = ExitFailure

----------------------------------------------------------------------------
Init ==
    /\ store \in [Names -> {Absent} \cup ExternalFiles]
    /\ cmd = Command("none", "", "", <<>>, None, FALSE, FALSE,
                     NoInput, NoInput, NoChild)
    /\ out = <<>>
    /\ spawned = <<>>
    /\ listed = <<>>
    /\ err = NoErr
    /\ exit = ExitSuccess

\* vex save [-y] [-d desc] name qemu_bin [qemu_args...]
Save(force, name, desc, qemu_bin, qemu_args, in1, in2) ==
    LET has_debug_args == HasDebugArgs(qemu_args)
        strip == has_debug_args /\ StripAccepted(in1)
        final_args == IF strip THEN FilterDebugArgs(qemu_args) ELSE qemu_args
        config == QemuConfig(qemu_bin, final_args, desc)
        ask == Exists(name) /\ ~force
        debugOut == IF ~has_debug_args THEN <<>>
                    ELSE IF strip THEN <<"strip_prompt", "debug_skipped">>
                    ELSE <<"strip_prompt", "debug_included">>
        askOut == IF ask THEN <<"overwrite_prompt">> ELSE <<>>
    IN  /\ cmd' = Command("save", name, "", qemu_args, desc, force, FALSE,
                          in1, in2, NoChild)
        /\ spawned' = <<>>
        /\ listed' = <<>>
        /\ IF ask /\ ~OverwriteAccepted(in2)
           THEN /\ Succeed(debugOut \o askOut \o <<"save_cancelled">>)
                /\ UNCHANGED store
           ELSE /\ store' = WriteFile(store, name, Serialize(config))
                /\ Succeed(debugOut \o askOut \o <<"saved">>)

SaveCmd ==
    \E force \in BOOLEAN, name \in Names, desc \in {None, Some("d")},
       qemu_args \in SaveArgs :
        \E in1 \in (IF HasDebugArgs(qemu_args) THEN Answers ELSE {NoInput}),
           in2 \in (IF Exists(name) /\ ~force THEN Answers ELSE {NoInput}) :
            Save(force, name, desc, QemuBin, qemu_args, in1, in2)

\* vex exec [-d] name
Exec(name, debug, child) ==
    LET file == store[name]
        parsed == Deserialize(file)
        config == parsed.config
        exec_args == IF debug THEN DebugExecArgs(config.args) ELSE config.args
        startOut == IF debug THEN <<"starting_debug", "gdb_hint">>
                    ELSE <<"starting">>
    IN  /\ cmd' = Command("exec", name, "", <<>>, None, FALSE, debug,
                          NoInput, NoInput, child)
        /\ listed' = <<>>
        /\ UNCHANGED store
        /\ IF ~Exists(name)
           THEN spawned' = <<>> /\ child = NoChild
                /\ Fail(<<>>, Error("NotFound"))
           ELSE IF ~Readable(file)
           THEN spawned' = <<>> /\ child = NoChild
                /\ Fail(<<>>, Error("ReadFailed"))
           ELSE IF ~parsed.ok
           THEN spawned' = <<>> /\ child = NoChild
                /\ Fail(<<>>, Error("Corrupt"))
           ELSE IF child.kind = "spawn_failed"
           THEN spawned' = <<>>
                /\ Fail(startOut, Error("SpawnFailed"))
           ELSE /\ child.kind \in {"exit", "signal"}
                /\ spawned' = <<[qemu_bin |-> config.qemu_bin,
                                 args |-> exec_args]>>
                /\ IF child.kind = "exit" /\ child.code = 0
                   THEN Succeed(startOut)
                   ELSE Fail(startOut,
                             [kind |-> "ChildNonZeroExit",
                              code |-> IF child.kind = "exit" THEN child.code
                                       ELSE UnknownCode])

ExecCmd ==
    \E name \in Names, debug \in BOOLEAN,
       child \in ChildOutcomes \cup {NoChild} :
        Exec(name, debug, child)

\* vex rm name
Rm(name) ==
    /\ cmd' = Command("rm", name, "", <<>>, None, FALSE, FALSE,
                      NoInput, NoInput, NoChild)
    /\ spawned' = <<>>
    /\ listed' = <<>>
    /\ IF ~Exists(name)
       THEN /\ Fail(<<>>, Error("NotFound"))
            /\ UNCHANGED store
       ELSE /\ store' = RemoveFile(store, name)
            /\ Succeed(<<"deleted">>)

RmCmd == \E name \in Names : Rm(name)

\* The sequences that enumerate the set S once each: read_dir's orders.
Orders(S) ==
    {o \in [1..Cardinality(S) -> S] : \A n \in S : \E i \in DOMAIN o : o[i] = n}

RECURSIVE list_configs_Break(_)
\* list_configs leaving the loop at the first entry it cannot use.
list_configs_Break(entries) ==
    IF entries = <<>> THEN <<>>
    ELSE LET name == Head(entries)
             file == store[name]
         IN  IF Readable(file) /\ Deserialize(file).ok
             THEN <<[name |-> name, config |-> Deserialize(file).config]>>
                  \o list_configs_Break(Tail(entries))
             ELSE <<>>

RECURSIVE list_configs(_)
\* The loop of list_configs over the directory entries `entries`: an entry is
\* pushed when it reads as text and parses, and skipped otherwise.
list_configs(entries) ==
    IF entries = <<>> THEN <<>>
    ELSE LET name == Head(entries)
             file == store[name]
             rest == list_configs(Tail(entries))
         IN  IF Readable(file) /\ Deserialize(file).ok
             THEN <<[name |-> name, config |-> Deserialize(file).config]>>
                  \o rest
             ELSE rest

\* vex list
List(entries) ==
    LET configs == list_configs(entries)
    IN  /\ cmd' = Command("list", "", "", <<>>, None, FALSE, FALSE,
                          NoInput, NoInput, NoChild)
        /\ spawned' = <<>>
        /\ listed' = configs
        /\ UNCHANGED store
        /\ Succeed(IF configs = <<>> THEN <<"none_found">>
                   ELSE <<"saved_configurations">>)

ListCmd == \E entries \in Orders({n \in Names : Exists(n)}) : List(entries)

\* UpdateDesc without the `if let`: `config.desc = desc`.
UpdateDesc_Always(config, desc) == [config EXCEPT !.desc = desc]

\* `if let Some(new_desc) = desc { config.desc = Some(new_desc); }`
UpdateDesc(config, desc) ==
    IF desc # None THEN [config EXCEPT !.desc = desc] ELSE config

\* Rename once the checks have passed: read the old file, write the new one,
\* remove the old one.
RenameConfirmed(desc, old_name, new_name, askOut) ==
    LET file == store[old_name]
        parsed == Deserialize(file)
        config == UpdateDesc(parsed.config, desc)
        written == WriteFile(store, new_name, Serialize(config))
    IN  IF ~Readable(file)
        THEN /\ Fail(askOut, Error("ReadFailed"))
             /\ UNCHANGED store
        ELSE IF ~parsed.ok
        THEN /\ Fail(askOut, Error("Corrupt"))
             /\ UNCHANGED store
        ELSE /\ store' = RemoveFile(written, old_name)
             /\ Succeed(askOut \o <<"renamed">>)

\* Rename asking for the overwrite before it looks for the old name.
Rename_PromptFirst(desc, force, old_name, new_name, in1) ==
    LET ask == Exists(new_name) /\ ~force
        askOut == IF ask THEN <<"overwrite_prompt">> ELSE <<>>
    IN  /\ cmd' = Command("rename", old_name, new_name, <<>>, desc, force,
                          FALSE, in1, NoInput, NoChild)
        /\ spawned' = <<>>
        /\ listed' = <<>>
        /\ IF ask /\ ~OverwriteAccepted(in1)
           THEN /\ Succeed(askOut \o <<"rename_cancelled">>)
                /\ UNCHANGED store
           ELSE IF ~Exists(old_name)
           THEN /\ Fail(askOut, Error("NotFound"))
                /\ UNCHANGED store
           ELSE RenameConfirmed(desc, old_name, new_name, askOut)

\* vex rename [-d desc] [-y] old_name new_name
Rename(desc, force, old_name, new_name, in1) ==
    LET ask == Exists(new_name) /\ ~force
        askOut == IF ask THEN <<"overwrite_prompt">> ELSE <<>>
    IN  /\ cmd' = Command("rename", old_name, new_name, <<>>, desc, force,
                          FALSE, in1, NoInput, NoChild)
        /\ spawned' = <<>>
        /\ listed' = <<>>
        /\ IF ~Exists(old_name)
           THEN /\ Fail(<<>>, Error("NotFound"))
                /\ UNCHANGED store
           ELSE IF ask /\ ~OverwriteAccepted(in1)
           THEN /\ Succeed(askOut \o <<"rename_cancelled">>)
                /\ UNCHANGED store
           ELSE RenameConfirmed(desc, old_name, new_name, askOut)

RenameCmd ==
    \E desc \in {None, Some("e")}, force \in BOOLEAN,
       old_name \in Names, new_name \in Names :
        \E in1 \in (IF Exists(old_name) /\ Exists(new_name) /\ ~force
                    THEN Answers ELSE {NoInput}) :
            Rename(desc, force, old_name, new_name, in1)

\* vex rename killed by a signal after fs::write of the new file and before
\* fs::remove_file of the old one.  No signal is handled, so the process ends
\* there: nothing more is printed, and it has no exit code of its own (shown
\* as the code of a signalled process, as for a child).
RenameInterrupted(desc, force, old_name, new_name, in1) ==
    LET ask == Exists(new_name) /\ ~force
        askOut == IF ask THEN <<"overwrite_prompt">> ELSE <<>>
        file == store[old_name]
        parsed == Deserialize(file)
        config == UpdateDesc(parsed.config, desc)
    IN  /\ Exists(old_name)
        /\ ~(ask /\ ~OverwriteAccepted(in1))
        /\ Readable(file)
        /\ parsed.ok
        /\ cmd' = Command("rename_interrupted", old_name, new_name, <<>>,
                          desc, force, FALSE, in1, NoInput, NoChild)
        /\ spawned' = <<>>
        /\ listed' = <<>>
        /\ store' = WriteFile(store, new_name, Serialize(config))
        /\ out' = askOut
        /\ err' = Error("Interrupted")
        /\ exit' = UnknownCode

RenameInterruptedCmd ==
    \E desc \in {None, Some("e")}, force \in BOOLEAN,
       old_name \in Names, new_name \in Names :
        \E in1 \in (IF Exists(old_name) /\ Exists(new_name) /\ ~force
                    THEN Answers ELSE {NoInput}) :
            RenameInterrupted(desc, force, old_name, new_name, in1)

Next ==
    \/ SaveCmd
    \/ ExecCmd
    \/ RmCmd
    \/ ListCmd
    \/ RenameCmd
    \/ RenameInterruptedCmd

Spec == Init /\ [][Next]_vars

----------------------------------------------------------------------------
(* Properties *)

Printed(messages, m) == \E i \in 1..Len(messages) : messages[i] = m

IsFlag(arg) == arg \in {"-s", "-S"}
HasFlag(args) == \E i \in 1..Len(args) : IsFlag(args[i])

\* The typed lines that say yes, and those that say nothing.
YesLines == { <<"y", "\n">>, <<" ", "Y", "E", "S", " ", "\n">> }
EmptyLines == { <<"\n">> }

\* The argument list written in the record file of `name` in directory `dir`.
StoredArgs(dir, name) ==
    LET obj == dir[name].obj
    IN  obj[CHOOSE i \in 1..Len(obj) : obj[i].k = "args"].v.a

\* `kept` is `given` without its flags: the other arguments, all of them, in
\* their order.
KeepsOthersInOrder(kept, given) ==
    \E f \in [1..Len(kept) -> 1..Len(given)] :
        /\ \A i \in 1..Len(kept) : kept[i] = given[f[i]]
        /\ \A i, j \in 1..Len(kept) : i < j => f[i] < f[j]
        /\ {f[i] : i \in 1..Len(kept)} =
               {j \in 1..Len(given) : ~IsFlag(given[j])}

\* C1: a successful Save of record R under name N whose arguments are
\* persisted unfiltered (no -s/-S given, or the strip prompt declined) leaves
\* a file that loads into a record equal to R in executable path, arguments
\* and description; an Exec of N right after it runs that executable with
\* those arguments.
C1_SaveLoadRoundTrip ==
    [][ /\ ( /\ cmd'.op = "save"
             /\ exit' = ExitSuccess
             /\ ~Printed(out', "save_cancelled")
             /\ (~HasFlag(cmd'.args) \/ cmd'.in1 \notin YesLines \cup EmptyLines) )
           => LET loaded == Deserialize(store'[cmd'.name])
              IN  /\ Readable(store'[cmd'.name])
                  /\ loaded.ok
                  /\ loaded.config.qemu_bin = QemuBin
                  /\ loaded.config.args = cmd'.args
                  /\ loaded.config.desc = cmd'.desc
        /\ ( /\ cmd.op = "save"
             /\ exit = ExitSuccess
             /\ ~Printed(out, "save_cancelled")
             /\ (~HasFlag(cmd.args) \/ cmd.in1 \notin YesLines \cup EmptyLines)
             /\ cmd'.op = "exec"
             /\ cmd'.name = cmd.name )
           => /\ err'.kind \notin {"NotFound", "ReadFailed", "Corrupt"}
              /\ (~cmd'.debug /\ spawned' # <<>>)
                   => spawned' = <<[qemu_bin |-> QemuBin, args |-> cmd.args]>>
      ]_vars

\* A Save that kept the debug flags it was given (prompt declined) and a
\* description has written its record.
C1_Witness ==
    /\ cmd.op = "save"
    /\ Printed(out, "saved")
    /\ Printed(out, "debug_included")
    /\ cmd.desc # None
    /\ Deserialize(store[cmd.name]).config.args = cmd.args

\* C2: a Rename(OLD, NEW, new_description, force) of distinct names, OLD
\* holding a parseable record R, that is not cancelled ends with OLD absent
\* and NEW holding R's executable path and arguments, with new_description
\* when one is given and R's description otherwise, whatever NEW held before.
C2_RenameMoves ==
    [][ ( /\ cmd'.op = "rename"
          /\ cmd'.name # cmd'.new_name
          /\ Readable(store[cmd'.name])
          /\ Deserialize(store[cmd'.name]).ok
          /\ ~Printed(out', "rename_cancelled") )
        => LET R == Deserialize(store[cmd'.name]).config
               new == Deserialize(store'[cmd'.new_name])
           IN  /\ exit' = ExitSuccess
               /\ store'[cmd'.name].st = "absent"
               /\ store'[cmd'.new_name].st = "json"
               /\ new.ok
               /\ new.config.qemu_bin = R.qemu_bin
               /\ new.config.args = R.args
               /\ new.config.desc =
                      (IF cmd'.desc # None THEN cmd'.desc ELSE R.desc)
      ]_vars

\* A Rename without -d has replaced an existing record of the new name and
\* kept the description of the old one.
C2_Witness ==
    /\ cmd.op = "rename"
    /\ cmd.name # cmd.new_name
    /\ cmd.desc = None
    /\ Printed(out, "overwrite_prompt")
    /\ Printed(out, "renamed")
    /\ Deserialize(store[cmd.new_name]).config.desc = Some("d")
    /\ store[cmd.name].st = "absent"

\* C3: Exec(N, debug) on a record with stored arguments A runs the executable
\* with exactly A followed by "-s" then "-S" when debug is set (and with
\* exactly A otherwise), and no Exec, whatever its outcome, changes any
\* record file.
C3_ExecDebugArgs ==
    [][ cmd'.op = "exec"
        => /\ store' = store
           /\ spawned' # <<>>
                => /\ Len(spawned') = 1
                   /\ spawned'[1].args =
                        (IF cmd'.debug
                         THEN StoredArgs(store, cmd'.name) \o <<"-s", "-S">>
                         ELSE StoredArgs(store, cmd'.name))
           /\ ( /\ cmd'.child.kind \in {"exit", "signal"}
                /\ Readable(store[cmd'.name])
                /\ Deserialize(store[cmd'.name]).ok )
                => spawned' # <<>>
      ]_vars

\* A debug Exec of a record with stored arguments has run a child that failed.
C3_Witness ==
    /\ cmd.op = "exec"
    /\ cmd.debug
    /\ spawned # <<>>
    /\ Len(spawned[1].args) > 2
    /\ err.kind = "ChildNonZeroExit"
    /\ StoredArgs(store, cmd.name) # spawned[1].args

\* C4: when Save is given arguments containing "-s" or "-S" and persists a
\* record, then with the strip prompt accepted (empty line, "y" or "yes") the
\* persisted arguments hold neither flag and are the other arguments in
\* their given order, and with the prompt declined they are the arguments as
\* given.
C4_StripDebugFlags ==
    [][ ( /\ cmd'.op = "save"
          /\ HasFlag(cmd'.args)
          /\ ~Printed(out', "save_cancelled") )
        => LET kept == StoredArgs(store', cmd'.name)
           IN  /\ Printed(out', "strip_prompt")
               /\ cmd'.in1 \in YesLines \cup EmptyLines
                    => /\ ~HasFlag(kept)
                       /\ KeepsOthersInOrder(kept, cmd'.args)
               /\ cmd'.in1 \notin YesLines \cup EmptyLines
                    => kept = cmd'.args
      ]_vars

\* A Save given both flags between other arguments was answered with an
\* empty line and has persisted its record.
C4_Witness ==
    /\ cmd.op = "save"
    /\ cmd.args = <<"-s", "-m", "-S", "512">>
    /\ cmd.in1 = <<"\n">>
    /\ Printed(out, "saved")
    /\ StoredArgs(store, cmd.name) = <<"-m", "512">>

\* The original statement of C5: the exit code of an Exec whose child exits
\* with code c is c.
C5_ExitCodePropagated ==
    (cmd.op = "exec" /\ spawned # <<>> /\ cmd.child.kind = "exit")
        => exit = cmd.child.code

\* C5 (amended): an Exec exits with code 0 exactly when it spawned the child
\* and the child exited with code 0; when the child exits with a non-zero
\* code c, or is killed by a signal, Exec exits with the failure code 1 and
\* its error carries c (or -1 for a signal).
C5_ExitCodeCollapsed ==
    cmd.op = "exec"
        => /\ exit = ExitSuccess
                <=> ( /\ spawned # <<>>
                      /\ cmd.child.kind = "exit"
                      /\ cmd.child.code = 0 )
           /\ (spawned # <<>> /\ exit # ExitSuccess)
                => /\ exit = ExitFailure
                   /\ err.kind = "ChildNonZeroExit"
                   /\ err.code = (IF cmd.child.kind = "exit"
                                  THEN cmd.child.code ELSE UnknownCode)

\* An Exec whose child exited with code 2 has itself exited with code 1.
C5_Witness ==
    /\ cmd.op = "exec"
    /\ spawned # <<>>
    /\ cmd.child = [kind |-> "exit", code |-> 2]
    /\ exit = ExitFailure
    /\ err.code = 2

\* C6: a Rename whose old name holds no record fails with NotFound and a
\* non-zero exit code, issues no prompt, and leaves the record of the new
\* name and every other record unchanged, with or without force.
C6_RenameMissingOld ==
    [][ (cmd'.op = "rename" /\ store[cmd'.name].st = "absent")
        => /\ err'.kind = "NotFound"
           /\ exit' # ExitSuccess
           /\ ~Printed(out', "overwrite_prompt")
           /\ ~Printed(out', "rename_cancelled")
           /\ store' = store
      ]_vars

\* A Rename without force, from a name that holds nothing to a name that
\* holds a record, has failed with NotFound.
C6_Witness ==
    /\ cmd.op = "rename"
    /\ ~cmd.force
    /\ store[cmd.name].st = "absent"
    /\ store[cmd.new_name].st = "json"
    /\ err.kind = "NotFound"
    /\ exit = ExitFailure

C8_RemoveThenNotFound ==
    [][ /\ (cmd'.op = "rm" /\ store[cmd'.name].st # "absent")
           => /\ exit' = ExitSuccess
              /\ err'.kind = "none"
              /\ store'[cmd'.name].st = "absent"
              /\ \A n \in Names \ {cmd'.name} : store'[n] = store[n]
        /\ (cmd'.op \in {"rm", "exec", "rename"} /\ store[cmd'.name].st = "absent")
           => /\ exit' # ExitSuccess
              /\ err'.kind = "NotFound"
              /\ store' = store
        /\ ( /\ cmd.op = "save"
             /\ Printed(out, "saved")
             /\ cmd'.op = "rm"
             /\ cmd'.name = cmd.name )
           => /\ exit' = ExitSuccess
              /\ store'[cmd.name].st = "absent"
        /\ ( /\ cmd.op = "rm"
             /\ exit = ExitSuccess
             /\ cmd'.op \in {"rm", "exec", "rename"}
             /\ cmd'.name = cmd.name )
           => /\ exit' # ExitSuccess
              /\ err'.kind = "NotFound"
      ]_vars

\* A Remove has succeeded: its name holds no record and the other name
\* still holds one.
C8_Witness ==
    /\ cmd.op = "rm"
    /\ exit = ExitSuccess
    /\ Printed(out, "deleted")
    /\ store[cmd.name].st = "absent"
    /\ \E n \in Names : store[n].st = "json"

\* A record file that reads as text and parses into a record.
ValidRecord(file) == Readable(file) /\ Deserialize(file).ok

\* C9: List reports exactly the names whose record files parse into a valid
\* record, each once and with that record's fields, leaves out every corrupt
\* or unreadable file without an error, exits with code 0 and changes no
\* record.
C9_ListValidOnly ==
    [][ cmd'.op = "list"
        => /\ store' = store
           /\ exit' = ExitSuccess
           /\ err'.kind = "none"
           /\ {listed'[i].name : i \in 1..Len(listed')} =
                  {n \in Names : ValidRecord(store[n])}
           /\ \A i, j \in 1..Len(listed') :
                  listed'[i].name = listed'[j].name => i = j
           /\ \A i \in 1..Len(listed') :
                  LET obj == store[listed'[i].name].obj
                  IN  /\ JStr(listed'[i].config.qemu_bin) = Value(obj, "qemu_bin")
                      /\ listed'[i].config.args = Value(obj, "args").a
                      /\ listed'[i].config = Deserialize(store[listed'[i].name]).config
      ]_vars

\* A List over one valid and one corrupt or unreadable record file has
\* reported the valid one.
C9_Witness ==
    /\ cmd.op = "list"
    /\ Len(listed) = 1
    /\ \E n \in Names : store[n].st \in {"text", "binary"}
    /\ exit = ExitSuccess

HasKey(file, k) == \E i \in 1..Len(file.obj) : file.obj[i].k = k

\* A JSON record file without one of the members qemu_bin and args.
MissingRequired(file) ==
    /\ file.st = "json"
    /\ (~HasKey(file, "qemu_bin") \/ ~HasKey(file, "args"))

\* A JSON record file with qemu_bin and args, and without desc or with a
\* member that is none of the three.
Tolerated(file) ==
    /\ file.st = "json"
    /\ HasKey(file, "qemu_bin")
    /\ HasKey(file, "args")
    /\ \/ ~HasKey(file, "desc")
       \/ \E i \in 1..Len(file.obj) :
              file.obj[i].k \notin {"qemu_bin", "args", "desc"}

\* The original statement of C10: a record file without any one of the three
\* members is Corrupt, so Exec and Rename fail on it and List leaves it out.
C10_MissingAnyFieldCorrupt ==
    [][ /\ ( /\ cmd'.op = "exec"
             /\ store[cmd'.name].st = "json"
             /\ \E k \in {"qemu_bin", "args", "desc"} :
                    ~HasKey(store[cmd'.name], k) )
           => (exit' # ExitSuccess /\ spawned' = <<>>)
        /\ ( /\ cmd'.op = "rename"
             /\ ~Printed(out', "rename_cancelled")
             /\ store[cmd'.name].st = "json"
             /\ \E k \in {"qemu_bin", "args", "desc"} :
                    ~HasKey(store[cmd'.name], k) )
           => (exit' # ExitSuccess /\ store' = store)
        /\ cmd'.op = "list"
           => \A n \in Names :
                 ( /\ store[n].st = "json"
                   /\ \E k \in {"qemu_bin", "args", "desc"} :
                          ~HasKey(store[n], k) )
                 => \A i \in 1..Len(listed') : listed'[i].name # n
      ]_vars

\* C10 (amended): loading a stored record tolerates unknown extra members
\* and a missing desc member (read as no description); a record file without
\* qemu_bin or without args is Corrupt: Exec and a Rename that is not
\* cancelled fail on it with a non-zero exit code and List leaves it out.
C10_LoadTolerance ==
    [][ /\ (cmd'.op = "exec" /\ MissingRequired(store[cmd'.name]))
           => /\ exit' = ExitFailure
              /\ err'.kind = "Corrupt"
              /\ spawned' = <<>>
        /\ ( /\ cmd'.op = "exec"
             /\ Tolerated(store[cmd'.name])
             /\ cmd'.child.kind \in {"exit", "signal"} )
           => /\ spawned' # <<>>
              /\ spawned'[1].qemu_bin = Value(store[cmd'.name].obj, "qemu_bin").s
        /\ ( /\ cmd'.op = "rename"
             /\ ~Printed(out', "rename_cancelled")
             /\ MissingRequired(store[cmd'.name]) )
           => /\ exit' = ExitFailure
              /\ err'.kind = "Corrupt"
              /\ store' = store
        /\ ( /\ cmd'.op = "rename"
             /\ ~Printed(out', "rename_cancelled")
             /\ cmd'.name # cmd'.new_name
             /\ Tolerated(store[cmd'.name]) )
           => /\ exit' = ExitSuccess
              /\ store'[cmd'.new_name].st = "json"
              /\ StoredArgs(store', cmd'.new_name) = StoredArgs(store, cmd'.name)
              /\ ( /\ ~HasKey(store[cmd'.name], "desc")
                   /\ cmd'.desc = None )
                 => Value(store'[cmd'.new_name].obj, "desc") = JNull
        /\ cmd'.op = "list"
           => \A n \in Names :
                 /\ MissingRequired(store[n])
                      => \A i \in 1..Len(listed') : listed'[i].name # n
                 /\ Tolerated(store[n])
                      => \E i \in 1..Len(listed') :
                            /\ listed'[i].name = n
                            /\ ~HasKey(store[n], "desc")
                                 => listed'[i].config.desc = None
      ]_vars

\* An Exec of a record file that has no desc member has run its child and
\* succeeded.
C10_Witness ==
    /\ cmd.op = "exec"
    /\ store[cmd.name].st = "json"
    /\ ~HasKey(store[cmd.name], "desc")
    /\ spawned # <<>>
    /\ exit = ExitSuccess

\* The record file `file` holds a record with the executable path and the
\* arguments of the record R.
HoldsRecord(file, R) ==
    /\ file.st = "json"
    /\ HasKey(file, "qemu_bin")
    /\ HasKey(file, "args")
    /\ Value(file.obj, "qemu_bin") = JStr(R.qemu_bin)
    /\ Value(file.obj, "args") = JArr(R.args)

\* C11: Rename never loses the record.  For every old_name and new_name (the
\* two equal included) where old_name holds a parseable record R, in every
\* state a Rename that passed its confirmation step reaches (the state of an
\* interruption between the write and the delete included) old_name or
\* new_name holds a record with R's executable path and arguments, and after
\* a successful completion new_name holds it.
C11_RenameNeverLoses ==
    [][ ( /\ cmd'.op \in {"rename", "rename_interrupted"}
          /\ Readable(store[cmd'.name])
          /\ Deserialize(store[cmd'.name]).ok
          /\ ~Printed(out', "rename_cancelled") )
        => LET R == Deserialize(store[cmd'.name]).config
           IN  /\ \/ HoldsRecord(store'[cmd'.name], R)
                  \/ HoldsRecord(store'[cmd'.new_name], R)
               /\ (cmd'.op = "rename" /\ exit' = ExitSuccess)
                    => HoldsRecord(store'[cmd'.new_name], R)
      ]_vars

\* The same statement for two different names, which the code meets: the
\* interrupted state holds the record under both names, the completed one
\* under new_name.
C11_DistinctNamesKeepRecord ==
    [][ ( /\ cmd'.op \in {"rename", "rename_interrupted"}
          /\ cmd'.name # cmd'.new_name
          /\ Readable(store[cmd'.name])
          /\ Deserialize(store[cmd'.name]).ok
          /\ ~Printed(out', "rename_cancelled") )
        => LET R == Deserialize(store[cmd'.name]).config
           IN  /\ HoldsRecord(store'[cmd'.new_name], R)
               /\ cmd'.op = "rename_interrupted"
                    => HoldsRecord(store'[cmd'.name], R)
               /\ cmd'.op = "rename"
                    => (exit' = ExitSuccess /\ store'[cmd'.name].st = "absent")
      ]_vars

\* A Rename of a name onto itself has completed with success and the name
\* holds no record.
C11_LostRecord ==
    /\ cmd.op = "rename"
    /\ cmd.name = cmd.new_name
    /\ Printed(out, "renamed")
    /\ exit = ExitSuccess
    /\ store[cmd.name].st = "absent"

====
